---- MODULE Spec2Model ----
(***************************************************************************)
(* Model of herald's deduplication layer (src/pipeline/dedup.py): the      *)
(* persistent seen-URL store (SeenUrls), the title similarity matcher      *)
(* (is_title_duplicate) and the dedup stage (dedup_items).                 *)
(*                                                                         *)
(* Text is modelled as sequences of tokens.  A token is one run of         *)
(* characters without white space (a digest, a date, a time of day) or     *)
(* one white space character (" " or "\t").  A line of the backing file    *)
(* is a token sequence without its newline, a file is a sequence of lines. *)
(* Time is counted in days.                                                *)
(***************************************************************************)
EXTENDS Integers, Sequences, FiniteSets, TLC

\* ------------------------------------------------------------------------
\* Bounds
\* ------------------------------------------------------------------------
MaxUrl == 2          \* URLs are 1..MaxUrl
MaxTime == 2         \* the clock runs from day 0 to day MaxTime
MaxPast == 1         \* persisted timestamps reach back to day -MaxPast
MaxAgeDays == 1      \* max_age_days is drawn from 1..MaxAgeDays
MaxLineLen == 5      \* longest line of a backing file of any content
MaxShortLen == 3     \* longest line of such a file of two lines
MaxTmp == 2          \* temporary file names available in the directory
MaxBatch == 2        \* longest batch handed to dedup_items
MaxTitles == 2       \* longest list handed to is_title_duplicate
MaxTriggers == 2     \* most trigger phrases of one topic
MaxDemo == 2         \* demo runs
MaxRun == 3          \* longest batch whose effect on the store is followed
MaxUserLines == 2    \* lines of the user's own in the crontab

Urls == 1..MaxUrl
Insts == {1, 2}
Times == (0 - MaxPast)..MaxTime
MaxAges == 1..MaxAgeDays
TmpNames == 1..MaxTmp

\* ------------------------------------------------------------------------
\* Text helpers
\* ------------------------------------------------------------------------
WS == {" ", "\t"}

\* hashlib.sha256(url).hexdigest(): one token, distinct URLs give distinct
\* digests
_sha256(url) == <<"h" \o ToString(url)>>

\* datetime.isoformat() of an aware UTC datetime: one token
IsoFormat(t) == "d" \o ToString(t) \o "T00:00:00+00:00"
\* the date-only and the time-of-day part of an ISO-8601 string
IsoDate(t) == "d" \o ToString(t)
Midnight == "00:00:00"

ValueError == [ok |-> FALSE, t |-> 0]

\* the timestamps and the dates of the days of the model
IsoFormats == [t \in Times |-> IsoFormat(t)]
IsoDates == [t \in Times |-> IsoDate(t)]

\* datetime.fromisoformat: a full timestamp, a bare date, or a date and a
\* time of day separated by exactly one character (any character, so a
\* space or a tab too)
FromIsoFormat(s) ==
    IF Len(s) = 1 /\ \E t \in Times : s[1] \in {IsoFormats[t], IsoDates[t]}
    THEN [ok |-> TRUE, t |-> CHOOSE t \in Times : s[1] \in {IsoFormats[t], IsoDates[t]}]
    ELSE IF /\ Len(s) = 3
            /\ s[3] = Midnight
            /\ s[2] \in WS \cup {"T"}
            /\ \E t \in Times : s[1] = IsoDates[t]
    THEN [ok |-> TRUE, t |-> CHOOSE t \in Times : s[1] = IsoDates[t]]
    ELSE ValueError

\* _parse_ts: a naive result is taken as UTC, so the day is unchanged
_parse_ts(ts) == FromIsoFormat(ts)

\* str.strip(): drop leading and trailing white space
RECURSIVE LStrip(_)
LStrip(s) == IF s # <<>> /\ Head(s) \in WS THEN LStrip(Tail(s)) ELSE s
RECURSIVE RStrip(_)
RStrip(s) ==
    IF s # <<>> /\ s[Len(s)] \in WS THEN RStrip(SubSeq(s, 1, Len(s) - 1)) ELSE s
Strip(s) == RStrip(LStrip(s))

\* str.split(" ", 1): cut at the first space character, if there is one
SplitSpace1(s) ==
    IF \E k \in 1..Len(s) : s[k] = " "
    THEN LET k == CHOOSE k \in 1..Len(s) :
                     s[k] = " " /\ \A j \in 1..(k - 1) : s[j] # " "
         IN  <<SubSeq(s, 1, k - 1), SubSeq(s, k + 1, Len(s))>>
    ELSE <<s>>

\* ------------------------------------------------------------------------
\* The in-memory map: a Python dict, kept in insertion order
\* ------------------------------------------------------------------------
Keys(d) == {d[k].h : k \in 1..Len(d)}
HasKey(d, h) == h \in Keys(d)
Get(d, h) == d[CHOOSE k \in 1..Len(d) : d[k].h = h].ts
\* d[h] = ts: a new key is appended, an old key keeps its position
DictSet(d, h, ts) ==
    IF HasKey(d, h)
    THEN [k \in 1..Len(d) |-> IF d[k].h = h THEN [h |-> h, ts |-> ts] ELSE d[k]]
    ELSE Append(d, [h |-> h, ts |-> ts])

\* (a slip: > for >=, an entry exactly at the cutoff is dropped)
LoadLine_strict(d, raw, cutoff) ==
    LET line == Strip(raw)
        parts == SplitSpace1(line)
    IN  IF line = <<>> THEN d
        ELSE IF Len(parts) # 2 THEN d
        ELSE LET ts == _parse_ts(parts[2])
             IN  IF ~ts.ok THEN d
                 ELSE IF ts.t > cutoff THEN DictSet(d, parts[1], parts[2])
                 ELSE d

\* SeenUrls._load, the body of the loop for one line
LoadLine(d, raw, cutoff) ==
    LET line == Strip(raw)
        parts == SplitSpace1(line)
    IN  IF line = <<>> THEN d
        ELSE IF Len(parts) # 2 THEN d
        ELSE LET ts == _parse_ts(parts[2])
             IN  IF ~ts.ok THEN d
                 ELSE IF ts.t >= cutoff THEN DictSet(d, parts[1], parts[2])
                 ELSE d

RECURSIVE LoadLines(_, _, _)
\* (a slip: break for continue, the first line without two parts ends the
\* load)
LoadLines_break(d, lines, cutoff) ==
    IF lines = <<>> THEN d
    ELSE IF Len(SplitSpace1(Strip(Head(lines)))) # 2 THEN d
    ELSE LoadLines(LoadLine(d, Head(lines), cutoff), Tail(lines), cutoff)

LoadLines(d, lines, cutoff) ==
    IF lines = <<>> THEN d
    ELSE LoadLines(LoadLine(d, Head(lines), cutoff), Tail(lines), cutoff)

\* SeenUrls._load on a backing file f at time t
_load(f, t, max_age_days) ==
    IF ~f.exists THEN <<>>
    ELSE LoadLines(<<>>, f.lines, t - max_age_days)

\* (a slip: a tab between the fields)
EntryLine_tab(e) == e.h \o <<"\t">> \o e.ts
\* the line save() writes for one entry
EntryLine(e) == e.h \o <<" ">> \o e.ts
\* (a slip: the loop over the map starts at its second entry)
Serialize_skipFirst(d) == [k \in 1..(Len(d) - 1) |-> EntryLine(d[k + 1])]
\* the complete serialization of a map
Serialize(d) == [k \in 1..Len(d) |-> EntryLine(d[k])]

\* SeenUrls.is_seen and SeenUrls.add on the map d, add at time t
is_seen(d, url) == HasKey(d, _sha256(url))
\* (a slip: the map is replaced by one holding the new entry alone)
add_replacing(d, url, t) == <<[h |-> _sha256(url), ts |-> <<IsoFormat(t)>>]>>
add(d, url, t) == DictSet(d, _sha256(url), <<IsoFormat(t)>>)

\* ------------------------------------------------------------------------
\* Title similarity
\* ------------------------------------------------------------------------
\* str.lower(), one character
LowerChar(c) ==
    CASE c = "A" -> "a"
      [] c = "B" -> "b"
      [] c = "C" -> "c"
      [] c = "D" -> "d"
      [] OTHER -> c
Lower(s) == [k \in 1..Len(s) |-> LowerChar(s[k])]

\* a[i..i+k-1] = b[j..j+k-1]
BlockAt(a, b, i, j, k) ==
    /\ i + k - 1 <= Len(a)
    /\ j + k - 1 <= Len(b)
    /\ \A m \in 0..(k - 1) : a[i + m] = b[j + m]

\* SequenceMatcher.find_longest_match without junk: the longest common
\* block, of those the one starting earliest in a, of those the one
\* starting earliest in b
find_longest_match(a, b) ==
    LET Blocks == {<<i, j, k>> \in (1..Len(a)) \X (1..Len(b)) \X (1..Len(a)) :
                       BlockAt(a, b, i, j, k)}
    IN  IF Blocks = {} THEN <<1, 1, 0>>
        ELSE CHOOSE x \in Blocks :
                 \A y \in Blocks :
                     \/ x[3] > y[3]
                     \/ x[3] = y[3] /\ x[1] < y[1]
                     \/ x[3] = y[3] /\ x[1] = y[1] /\ x[2] <= y[2]

\* SequenceMatcher.get_matching_blocks: the number of matched characters,
\* the longest block first, then the pieces to its left and to its right
RECURSIVE Matches(_, _)
Matches(a, b) ==
    LET m == find_longest_match(a, b)
    IN  IF m[3] = 0 THEN 0
        ELSE m[3]
             + Matches(SubSeq(a, 1, m[1] - 1), SubSeq(b, 1, m[2] - 1))
             + Matches(SubSeq(a, m[1] + m[3], Len(a)),
                       SubSeq(b, m[2] + m[3], Len(b)))

\* (a slip: >= for >, a ratio equal to the threshold counts as a duplicate)
RatioExceeds_atLeast(a, b, threshold) ==
    IF Len(a) + Len(b) = 0 THEN 100 >= threshold
    ELSE 200 * Matches(a, b) >= threshold * (Len(a) + Len(b))

\* SequenceMatcher.ratio() > threshold, the threshold in hundredths:
\* ratio is 2.0 * matches / length, and 1.0 when both strings are empty
RatioExceeds(a, b, threshold) ==
    IF Len(a) + Len(b) = 0 THEN 100 > threshold
    ELSE 200 * Matches(a, b) > threshold * (Len(a) + Len(b))

\* the default of is_title_duplicate's threshold, 0.85, in hundredths
DefaultThreshold == 85

is_title_duplicate(title, existing_titles, threshold) ==
    \E k \in 1..Len(existing_titles) :
        RatioExceeds(Lower(title), Lower(existing_titles[k]), threshold)

\* ------------------------------------------------------------------------
\* Keyword matcher
\* ------------------------------------------------------------------------
\* p in s, for strings
IsSubstring(p, s) ==
    \E i \in 0..(Len(s) - Len(p)) : SubSeq(s, i + 1, i + Len(p)) = p

\* (a slip: the text and the triggers are compared as they are written)
keyword_match_caseSensitive(text, keyword_table) ==
    {topic \in DOMAIN keyword_table :
        \E k \in 1..Len(keyword_table[topic]) :
            IsSubstring(keyword_table[topic][k], text)}

\* keyword_match(text, keyword_table): the topics one of whose trigger
\* phrases is in the text, both lower-cased
keyword_match(text, keyword_table) ==
    {topic \in DOMAIN keyword_table :
        \E k \in 1..Len(keyword_table[topic]) :
            IsSubstring(Lower(keyword_table[topic][k]), Lower(text))}

\* ------------------------------------------------------------------------
\* Scheduler: times and crontab entries
\* ------------------------------------------------------------------------
_CRON_MARKER == "# herald"

Digits == {"0", "1", "2", "3", "4", "5", "6", "7", "8", "9"}
DigitVal(c) == CHOOSE n \in 0..9 : ToString(n) = c
\* int(s) of a string of characters: its value, or a ValueError
RECURSIVE IntOf(_)
IntOf(s) == IF s = <<>> THEN 0
            ELSE 10 * IntOf(SubSeq(s, 1, Len(s) - 1)) + DigitVal(s[Len(s)])
ParseInt(s) ==
    IF s = <<>> \/ \E k \in 1..Len(s) : s[k] \notin Digits
    THEN [ok |-> FALSE, n |-> 0]
    ELSE [ok |-> TRUE, n |-> IntOf(s)]

\* time.split(":")
RECURSIVE SplitColon(_)
SplitColon(s) ==
    IF \A k \in 1..Len(s) : s[k] # ":" THEN <<s>>
    ELSE LET k == CHOOSE k \in 1..Len(s) :
                      s[k] = ":" /\ \A j \in 1..(k - 1) : s[j] # ":"
         IN  <<SubSeq(s, 1, k - 1)>> \o SplitColon(SubSeq(s, k + 1, Len(s)))

\* _validate_time: the hour and the minute, or a ValueError
TimeError == [ok |-> FALSE, hour |-> 0, minute |-> 0]
_validate_time(time) ==
    LET parts == SplitColon(time)
    IN  IF Len(parts) # 2 THEN TimeError
        ELSE LET hour == ParseInt(parts[1])
                 minute == ParseInt(parts[2])
             IN  IF ~hour.ok \/ ~minute.ok THEN TimeError
                 ELSE IF ~(0 <= hour.n /\ hour.n <= 23 /\ 0 <= minute.n /\ minute.n <= 59)
                 THEN TimeError
                 ELSE [ok |-> TRUE, hour |-> hour.n, minute |-> minute.n]

\* _crontab_entry: the line, as its pieces, or a ValueError
_crontab_entry(run_sh_path, time) ==
    LET t == _validate_time(time)
    IN  IF ~t.ok THEN "ValueError"
        ELSE <<ToString(t.minute), " ", ToString(t.hour), " * * * ",
               run_sh_path, "  ", _CRON_MARKER>>

\* ------------------------------------------------------------------------
\* Dedup stage
\* ------------------------------------------------------------------------
\* dedup_items: the loop over the items still to visit.  d is seen._store,
\* t the time of the call.
RECURSIVE DedupLoop(_, _, _, _, _)
\* (a slip: the title of an accepted item is not remembered)
DedupLoop_noTitles(items, d, accepted, accepted_titles, t) ==
    IF items = <<>> THEN [accepted |-> accepted, store |-> d]
    ELSE LET item == Head(items)
         IN  IF is_seen(d, item.url)
             THEN DedupLoop(Tail(items), d, accepted, accepted_titles, t)
             ELSE IF is_title_duplicate(item.title, accepted_titles, DefaultThreshold)
             THEN DedupLoop(Tail(items), d, accepted, accepted_titles, t)
             ELSE DedupLoop(Tail(items), add(d, item.url, t),
                            Append(accepted, item), accepted_titles, t)

\* (a slip: an item rejected for its title is recorded in the store)
DedupLoop_marksRejected(items, d, accepted, accepted_titles, t) ==
    IF items = <<>> THEN [accepted |-> accepted, store |-> d]
    ELSE LET item == Head(items)
         IN  IF is_seen(d, item.url)
             THEN DedupLoop(Tail(items), d, accepted, accepted_titles, t)
             ELSE IF is_title_duplicate(item.title, accepted_titles, DefaultThreshold)
             THEN DedupLoop(Tail(items), add(d, item.url, t), accepted,
                            accepted_titles, t)
             ELSE DedupLoop(Tail(items),
                            add(d, item.url, t),
                            Append(accepted, item),
                            Append(accepted_titles, item.title), t)

\* (a slip: meeting a URL again records it anew)
DedupLoop_refresh(items, d, accepted, accepted_titles, t) ==
    IF items = <<>> THEN [accepted |-> accepted, store |-> d]
    ELSE LET item == Head(items)
         IN  IF is_seen(d, item.url)
             THEN DedupLoop(Tail(items), add(d, item.url, t), accepted,
                            accepted_titles, t)
             ELSE IF is_title_duplicate(item.title, accepted_titles, DefaultThreshold)
             THEN DedupLoop(Tail(items), d, accepted, accepted_titles, t)
             ELSE DedupLoop(Tail(items),
                            add(d, item.url, t),
                            Append(accepted, item),
                            Append(accepted_titles, item.title), t)

\* (a slip: an accepted item is not recorded in the store)
DedupLoop_noAdd(items, d, accepted, accepted_titles, t) ==
    IF items = <<>> THEN [accepted |-> accepted, store |-> d]
    ELSE LET item == Head(items)
         IN  IF is_seen(d, item.url)
             THEN DedupLoop(Tail(items), d, accepted, accepted_titles, t)
             ELSE IF is_title_duplicate(item.title, accepted_titles, DefaultThreshold)
             THEN DedupLoop(Tail(items), d, accepted, accepted_titles, t)
             ELSE DedupLoop(Tail(items), d,
                            Append(accepted, item),
                            Append(accepted_titles, item.title), t)

DedupLoop(items, d, accepted, accepted_titles, t) ==
    IF items = <<>> THEN [accepted |-> accepted, store |-> d]
    ELSE LET item == Head(items)
         IN  IF is_seen(d, item.url)
             THEN DedupLoop(Tail(items), d, accepted, accepted_titles, t)
             ELSE IF is_title_duplicate(item.title, accepted_titles, DefaultThreshold)
             THEN DedupLoop(Tail(items), d, accepted, accepted_titles, t)
             ELSE DedupLoop(Tail(items),
                            add(d, item.url, t),
                            Append(accepted, item),
                            Append(accepted_titles, item.title), t)

dedup_items(items, d, t) == DedupLoop(items, d, <<>>, <<>>, t)

\* ------------------------------------------------------------------------
\* State
\* ------------------------------------------------------------------------
VARIABLES
    now,         \* the clock, in days
    dir,         \* whether the directory of the backing file exists
    file,        \* the backing file: [exists, lines]
    tmpfiles,    \* the temporary files of the directory, by name
    store,       \* per instance: _store
    max_age,     \* per instance: _max_age_days
    pc,          \* per instance: "none" (not constructed), "idle", or the
                 \* step of save() it is at
    tmp,         \* per instance in save(): the name mkstemp returned
    widx,        \* per instance in save(): entries written so far
    exc,         \* per instance in save(): the exception being handled
    ret,         \* per instance: the call that returned last, its result and,
                 \* of dedup_items, its batch
    added,       \* per instance: the URLs recorded on it since construction
    loaded,      \* per instance: the keys _load put into it
    lastWriter,  \* the instance whose rename replaced the backing file last
    existing_titles, \* the list a caller hands to is_title_duplicate
    plat,        \* detect_platform(): "macos", "linux" or "unsupported"
    systemctl,   \* whether shutil.which("systemctl") finds the program
    plist,       \* whether the launchd plist file exists
    service,     \* whether the systemd service file exists
    timer,       \* whether the systemd timer file exists
    crontab,     \* the user's crontab: [exists, lines]
    tmp_dirs,    \* the directories tempfile.mkdtemp has created, each by
                 \* the seen_urls.txt in it
    dummy_seen   \* the store of the demo run under way or last made

\* what the operations of the seen-URL store leave alone
others == <<existing_titles, plat, systemctl, plist, service, timer, crontab,
            tmp_dirs, dummy_seen>>
vars == <<now, dir, file, tmpfiles, store, max_age, pc, tmp, widx, exc, ret,
          added, loaded, lastWriter, others>>

Absent == [exists |-> FALSE, lines |-> <<>>]
FileOf(lines) == [exists |-> TRUE, lines |-> lines]
\* A temporary file that no process holds any more is never read again:
\* the model keeps that it exists and forgets what it holds.
Orphaned(f) == IF f.exists THEN FileOf(<<>>) ELSE f

\* the titles and items of the batches handed to dedup_items
Titles == {<<"a", "b", "c">>, <<"A", "b", "c", "d">>, <<"x", "y">>}
Items == [url : Urls, title : Titles]
RECURSIVE SeqsUpTo(_, _)
SeqsUpTo(S, n) ==
    IF n = 0 THEN {<<>>}
    ELSE LET R == SeqsUpTo(S, n - 1)
         IN  R \cup {Append(r, x) : r \in {q \in R : Len(q) = n - 1}, x \in S}
Batches == SeqsUpTo(Items, MaxBatch)

\* the lines an earlier run may have left in the backing file
WrittenLines ==
    {EntryLine([h |-> _sha256(u), ts |-> <<IsoFormat(t)>>]) :
        u \in Urls, t \in (0 - MaxPast)..0}
InitFiles ==
    {Absent, FileOf(<<>>)} \cup {FileOf(<<l>>) : l \in WrittenLines}
    \cup {FileOf(<<p[1], p[2]>>) :
              p \in {q \in WrittenLines \X WrittenLines : q[1][1] # q[2][1]}}

\* no title list, no scheduled job, no demo run yet
InitOthers ==
    /\ existing_titles = <<>>
    /\ plat = "linux"
    /\ systemctl = FALSE
    /\ plist = FALSE
    /\ service = FALSE
    /\ timer = FALSE
    /\ crontab = Absent
    /\ tmp_dirs = <<>>
    /\ dummy_seen = <<>>

Init ==
    /\ InitOthers
    /\ now = 0
    /\ file \in InitFiles
    /\ dir \in {b \in BOOLEAN : file.exists => b}
    /\ tmpfiles = [n \in TmpNames |-> Absent]
    /\ store = [i \in Insts |-> <<>>]
    /\ max_age = [i \in Insts |-> 1]
    /\ pc = [i \in Insts |-> "none"]
    /\ tmp = [i \in Insts |-> 0]
    /\ widx = [i \in Insts |-> 0]
    /\ exc = [i \in Insts |-> "none"]
    /\ ret = [i \in Insts |-> [op |-> "none", val |-> "none", arg |-> <<>>]]
    /\ added = [i \in Insts |-> {}]
    /\ loaded = [i \in Insts |-> {}]
    /\ lastWriter = 0

\* ------------------------------------------------------------------------
\* Operations
\* ------------------------------------------------------------------------
\* time passes
Tick ==
    /\ now < MaxTime
    /\ UNCHANGED others
    /\ now' = now + 1
    /\ UNCHANGED <<dir, file, tmpfiles, store, max_age, pc, tmp, widx, exc,
                   ret, added, loaded, lastWriter>>

\* SeenUrls(path, max_age_days): a new instance takes the place of i
Construct(i, m) ==
    /\ pc[i] \in {"none", "idle"}
    /\ UNCHANGED others
    /\ UNCHANGED <<now, dir, file, tmpfiles, tmp, widx, exc, lastWriter>>
    /\ pc' = [pc EXCEPT ![i] = "idle"]
    /\ ret' = [ret EXCEPT ![i] = [op |-> "init", val |-> "none", arg |-> <<>>]]
    /\ max_age' = [max_age EXCEPT ![i] = m]
    /\ added' = [added EXCEPT ![i] = {}]
    /\ store' = [store EXCEPT ![i] = _load(file, now, m)]
    /\ loaded' = [loaded EXCEPT ![i] = Keys(store'[i])]

\* (a slip: add writes the map through to the backing file)
AddCall_persist(i, url) ==
    /\ pc[i] = "idle"
    /\ UNCHANGED others
    /\ UNCHANGED <<now, dir, tmpfiles, max_age, pc, tmp, widx, exc, loaded,
                   lastWriter>>
    /\ ret' = [ret EXCEPT ![i] = [op |-> "add", val |-> "none", arg |-> <<>>]]
    /\ added' = [added EXCEPT ![i] = @ \cup {url}]
    /\ store' = [store EXCEPT ![i] = add(store[i], url, now)]
    /\ file' = FileOf(Serialize(store'[i]))

\* seen.add(url)
AddCall(i, url) ==
    /\ pc[i] = "idle"
    /\ UNCHANGED others
    /\ UNCHANGED <<now, dir, file, tmpfiles, max_age, pc, tmp, widx, exc,
                   loaded, lastWriter>>
    /\ ret' = [ret EXCEPT ![i] = [op |-> "add", val |-> "none", arg |-> <<>>]]
    /\ added' = [added EXCEPT ![i] = @ \cup {url}]
    /\ store' = [store EXCEPT ![i] = add(store[i], url, now)]

\* seen.is_seen(url)
IsSeenCall(i, url) ==
    /\ pc[i] = "idle"
    /\ UNCHANGED others
    /\ ret' = [ret EXCEPT ![i] = [op |-> "is_seen", val |-> is_seen(store[i], url), arg |-> <<>>]]
    /\ UNCHANGED <<now, dir, file, tmpfiles, store, max_age, pc, tmp, widx,
                   exc, added, loaded, lastWriter>>

\* dedup_items(items, seen)
DedupCall(i, items) ==
    /\ pc[i] = "idle"
    /\ UNCHANGED others
    /\ UNCHANGED <<now, dir, file, tmpfiles, max_age, pc, tmp, widx, exc,
                   loaded, lastWriter>>
    /\ LET r == dedup_items(items, store[i], now)
       IN  /\ store' = [store EXCEPT ![i] = r.store]
           /\ ret' = [ret EXCEPT ![i] = [op |-> "dedup", val |-> r.accepted, arg |-> items]]
           /\ added' = [added EXCEPT ![i] =
                            @ \cup {r.accepted[k].url : k \in 1..Len(r.accepted)}]

\* save() has returned or raised
Returned(i, val) ==
    /\ pc' = [pc EXCEPT ![i] = "idle"]
    /\ tmp' = [tmp EXCEPT ![i] = 0]
    /\ widx' = [widx EXCEPT ![i] = 0]
    /\ exc' = [exc EXCEPT ![i] = "none"]
    /\ ret' = [ret EXCEPT ![i] = [op |-> "save", val |-> val, arg |-> <<>>]]

\* save(), line 68: self._path.parent.mkdir(parents=True, exist_ok=True)
SaveMkdir(i, ok) ==
    /\ pc[i] = "idle"
    /\ UNCHANGED others
    /\ IF ok
       THEN /\ dir' = TRUE
            /\ pc' = [pc EXCEPT ![i] = "mkstemp"]
            /\ UNCHANGED <<tmp, widx, exc, ret>>
       ELSE /\ Returned(i, "OSError")
            /\ UNCHANGED dir
    /\ UNCHANGED <<now, file, tmpfiles, store, max_age, added, loaded, lastWriter>>

\* a name no file of the directory has
FreeNames == {n \in TmpNames : ~tmpfiles[n].exists}
\* (a slip: one fixed name for the temporary file of every save())
mkstemp_fixed == CHOOSE n \in TmpNames : \A m \in TmpNames : n <= m
mkstemp == CHOOSE n \in FreeNames : \A m \in FreeNames : n <= m

\* save(), line 70: tempfile.mkstemp creates a new empty file, or fails
SaveMkstemp(i, ok) ==
    /\ pc[i] = "mkstemp"
    /\ UNCHANGED others
    /\ IF ok /\ dir /\ FreeNames # {}
       THEN /\ tmp' = [tmp EXCEPT ![i] = mkstemp]
            /\ tmpfiles' = [tmpfiles EXCEPT ![mkstemp] = FileOf(<<>>)]
            /\ pc' = [pc EXCEPT ![i] = "write"]
            /\ UNCHANGED <<widx, exc, ret>>
       ELSE /\ Returned(i, "OSError")
            /\ UNCHANGED tmpfiles
    /\ UNCHANGED <<now, dir, file, store, max_age, added, loaded, lastWriter>>

\* (a slip: no try/except around the writes, a failed write raises at once)
SaveWrite_noCleanup(i, ok) ==
    /\ pc[i] = "write"
    /\ UNCHANGED others
    /\ widx[i] < Len(store[i])
    /\ IF ok
       THEN /\ tmpfiles' = [tmpfiles EXCEPT ![tmp[i]].lines =
                                Append(@, EntryLine(store[i][widx[i] + 1]))]
            /\ widx' = [widx EXCEPT ![i] = @ + 1]
            /\ UNCHANGED <<pc, tmp, exc, ret>>
       ELSE /\ Returned(i, "OSError")
            /\ UNCHANGED tmpfiles
    /\ UNCHANGED <<now, dir, file, store, max_age, added, loaded, lastWriter>>

\* (a slip: the entries are written to the backing file itself)
SaveWrite_inPlace(i, ok) ==
    /\ pc[i] = "write"
    /\ UNCHANGED others
    /\ widx[i] < Len(store[i])
    /\ IF ok
       THEN /\ file' = FileOf(IF widx[i] = 0 THEN <<EntryLine(store[i][1])>>
                              ELSE Append(file.lines, EntryLine(store[i][widx[i] + 1])))
            /\ tmpfiles' = [tmpfiles EXCEPT ![tmp[i]].lines =
                                Append(@, EntryLine(store[i][widx[i] + 1]))]
            /\ widx' = [widx EXCEPT ![i] = @ + 1]
            /\ UNCHANGED <<pc, exc>>
       ELSE /\ pc' = [pc EXCEPT ![i] = "except"]
            /\ exc' = [exc EXCEPT ![i] = "OSError"]
            /\ UNCHANGED <<file, tmpfiles, widx>>
    /\ UNCHANGED <<now, dir, store, max_age, tmp, ret, added, loaded, lastWriter>>

\* save(), lines 73-74: one more entry is written to the temporary file
SaveWrite(i, ok) ==
    /\ pc[i] = "write"
    /\ UNCHANGED others
    /\ widx[i] < Len(store[i])
    /\ IF ok
       THEN /\ tmpfiles' = [tmpfiles EXCEPT ![tmp[i]].lines =
                                Append(@, EntryLine(store[i][widx[i] + 1]))]
            /\ widx' = [widx EXCEPT ![i] = @ + 1]
            /\ UNCHANGED <<pc, exc>>
       ELSE /\ pc' = [pc EXCEPT ![i] = "except"]
            /\ exc' = [exc EXCEPT ![i] = "OSError"]
            /\ UNCHANGED <<tmpfiles, widx>>
    /\ UNCHANGED <<now, dir, file, store, max_age, tmp, ret, added, loaded,
                   lastWriter>>

\* save(), line 75: the file is closed and os.replace renames it over the
\* backing file in one step
SaveReplace(i, ok) ==
    /\ pc[i] = "write"
    /\ UNCHANGED others
    /\ widx[i] = Len(store[i])
    /\ IF ~tmpfiles[tmp[i]].exists
       THEN /\ pc' = [pc EXCEPT ![i] = "except"]
            /\ exc' = [exc EXCEPT ![i] = "FileNotFoundError"]
            /\ UNCHANGED <<file, tmpfiles, tmp, widx, ret, lastWriter>>
       ELSE IF ok
       THEN /\ file' = tmpfiles[tmp[i]]
            /\ tmpfiles' = [tmpfiles EXCEPT ![tmp[i]] = Absent]
            /\ lastWriter' = i
            /\ Returned(i, "ok")
       ELSE /\ pc' = [pc EXCEPT ![i] = "except"]
            /\ exc' = [exc EXCEPT ![i] = "OSError"]
            /\ UNCHANGED <<file, tmpfiles, tmp, widx, ret, lastWriter>>
    /\ UNCHANGED <<now, dir, store, max_age, added, loaded>>

\* save(), lines 76-81: os.unlink(tmp), an OSError of it is swallowed, and
\* the exception is raised again
SaveExcept(i, ok) ==
    /\ pc[i] = "except"
    /\ UNCHANGED others
    /\ tmpfiles' = [tmpfiles EXCEPT ![tmp[i]] = IF ok THEN Absent ELSE Orphaned(@)]
    /\ Returned(i, exc[i])
    /\ UNCHANGED <<now, dir, file, store, max_age, added, loaded, lastWriter>>

\* save(), lines 66-75, as a whole: in a process that nothing interrupts
\* and none of whose calls fails, the directory is there afterwards, the
\* backing file holds the entries of the map, and no temporary file is left
save(i) ==
    /\ pc[i] = "idle"
    /\ UNCHANGED others
    /\ FreeNames # {}
    /\ dir' = TRUE
    /\ file' = FileOf(Serialize(store[i]))
    /\ lastWriter' = i
    /\ ret' = [ret EXCEPT ![i] = [op |-> "save", val |-> "ok", arg |-> <<>>]]
    /\ UNCHANGED <<now, tmpfiles, store, max_age, pc, tmp, widx, exc, added,
                   loaded>>

\* the process dies in the middle of save()
Crash(i) ==
    /\ pc[i] \in {"mkstemp", "write", "except"}
    /\ UNCHANGED others
    /\ pc' = [pc EXCEPT ![i] = "none"]
    /\ store' = [store EXCEPT ![i] = <<>>]
    /\ tmp' = [tmp EXCEPT ![i] = 0]
    /\ widx' = [widx EXCEPT ![i] = 0]
    /\ exc' = [exc EXCEPT ![i] = "none"]
    /\ ret' = [ret EXCEPT ![i] = [op |-> "none", val |-> "none", arg |-> <<>>]]
    /\ added' = [added EXCEPT ![i] = {}]
    /\ loaded' = [loaded EXCEPT ![i] = {}]
    /\ tmpfiles' = IF tmp[i] = 0 THEN tmpfiles
                   ELSE [tmpfiles EXCEPT ![tmp[i]] = Orphaned(@)]
    /\ UNCHANGED <<now, dir, file, max_age, lastWriter>>

\* One process using one store, its input and output never failing: a run
\* of the pipeline, and the next run constructing its store anew
Next ==
    \/ Tick
    \/ \E m \in MaxAges : Construct(1, m)
    \/ \E url \in Urls : AddCall(1, url)
    \/ \E url \in Urls : IsSeenCall(1, url)
    \/ save(1)

Spec == Init /\ [][Next]_vars

\* A writer whose input and output may fail at any step and which may die
\* in the middle of save(), and a reader constructing stores on the same
\* path meanwhile.  The writer's batches are of one item at most; SpecDedup
\* has the longer ones.
InitSave ==
    /\ Init
    /\ file \in {Absent, FileOf(<<EntryLine([h |-> _sha256(1), ts |-> <<IsoFormat(0)>>])>>)}

NextSave ==
    \/ \E i \in Insts : Construct(i, MaxAgeDays)
    \/ \E url \in Urls : AddCall(1, url)
    \/ \E items \in SeqsUpTo(Items, 1) : DedupCall(1, items)
    \/ \E ok \in BOOLEAN : SaveMkdir(1, ok)
    \/ \E ok \in BOOLEAN : SaveMkstemp(1, ok)
    \/ \E ok \in BOOLEAN : SaveWrite(1, ok)
    \/ \E ok \in BOOLEAN : SaveReplace(1, ok)
    \/ \E ok \in BOOLEAN : SaveExcept(1, ok)
    \/ Crash(1)

SpecSave == InitSave /\ [][NextSave]_vars

\* Two writers on the same path, each constructing its store once, their
\* steps interleaved, input and output never failing
NextRace ==
    \/ \E i \in Insts : pc[i] = "none" /\ Construct(i, MaxAgeDays)
    \/ \E i \in Insts, url \in Urls : AddCall(i, url)
    \/ \E i \in Insts : SaveMkdir(i, TRUE)
    \/ \E i \in Insts : SaveMkstemp(i, TRUE)
    \/ \E i \in Insts : SaveWrite(i, TRUE)
    \/ \E i \in Insts : SaveReplace(i, TRUE)

SpecRace == InitSave /\ [][NextRace]_vars

\* A store constructed on a backing file of any content
LoadTokens == {"h1", " ", "\t", IsoDate(0), Midnight}
ShortTokens == {"h1", " ", IsoDate(0)}
LoadFiles ==
    {FileOf(<<l>>) : l \in SeqsUpTo(LoadTokens, MaxLineLen)}
    \cup {FileOf(<<l1, l2>>) : l1, l2 \in SeqsUpTo(ShortTokens, MaxShortLen)}

InitLoad ==
    /\ InitOthers
    /\ now = 0
    /\ file \in LoadFiles
    /\ dir = TRUE
    /\ tmpfiles = [n \in TmpNames |-> Absent]
    /\ store = [i \in Insts |-> <<>>]
    /\ max_age = [i \in Insts |-> 1]
    /\ pc = [i \in Insts |-> "none"]
    /\ tmp = [i \in Insts |-> 0]
    /\ widx = [i \in Insts |-> 0]
    /\ exc = [i \in Insts |-> "none"]
    /\ ret = [i \in Insts |-> [op |-> "none", val |-> "none", arg |-> <<>>]]
    /\ added = [i \in Insts |-> {}]
    /\ loaded = [i \in Insts |-> {}]
    /\ lastWriter = 0

NextLoad ==
    \/ Tick
    \/ \E m \in MaxAges : Construct(1, m)

SpecLoad == InitLoad /\ [][NextLoad]_vars

\* Batches handed to dedup_items on a store that add has filled; the
\* caller looks into the store, or adds to it, between two batches
InitDedup ==
    /\ Init
    /\ file = Absent /\ dir

NextDedup ==
    \/ pc[1] = "none" /\ Construct(1, MaxAgeDays)
    \/ \E url \in Urls : AddCall(1, url)
    \/ \E url \in Urls : IsSeenCall(1, url)
    \/ \E items \in Batches : ret[1].op # "dedup" /\ DedupCall(1, items)

SpecDedup == InitDedup /\ [][NextDedup]_vars

\* Batches long enough for a URL to come back after a title rejection
RunItems == [url : Urls, title : {<<"a", "b", "c">>, <<"x", "y">>}]
RunBatches == SeqsUpTo(RunItems, MaxRun)

NextRun ==
    \/ pc[1] = "none" /\ Construct(1, MaxAgeDays)
    \/ \E url \in Urls : AddCall(1, url)
    \/ \E items \in RunBatches : ret[1].op # "dedup" /\ DedupCall(1, items)

SpecRun == InitDedup /\ [][NextRun]_vars

\* Calls of is_title_duplicate on a list that its caller extends, as
\* dedup_items does (line 156)
TitleStrings ==
    {<<>>, <<"a", "b">>, <<"A", "B">>, <<"a", "x">>,
     <<"a", "b", "c">>, <<"A", "b", "c", "d">>}
\* thresholds, in hundredths
Thresholds == {0, 50, DefaultThreshold, 100}

TitleAppend(title) ==
    /\ Len(existing_titles) < MaxTitles
    /\ existing_titles' = Append(existing_titles, title)
    /\ UNCHANGED <<now, dir, file, tmpfiles, store, max_age, pc, tmp, widx, exc,
                   ret, added, loaded, lastWriter>>
    /\ UNCHANGED <<plat, systemctl, plist, service, timer, crontab, tmp_dirs,
                   dummy_seen>>

\* is_title_duplicate(title, existing_titles, threshold)
IsTitleDuplicateCall(title, threshold) ==
    /\ UNCHANGED others
    /\ UNCHANGED <<now, dir, file, tmpfiles, store, max_age, pc, tmp, widx, exc,
                   added, loaded, lastWriter>>
    /\ ret' = [ret EXCEPT ![1] =
                  [op |-> "is_title_duplicate",
                   val |-> is_title_duplicate(title, existing_titles, threshold),
                   arg |-> <<title, threshold>>]]

InitTitle ==
    /\ Init
    /\ file = Absent /\ dir

NextTitle ==
    \/ \E title \in TitleStrings : TitleAppend(title)
    \/ \E title \in TitleStrings, threshold \in Thresholds :
          IsTitleDuplicateCall(title, threshold)

SpecTitle == InitTitle /\ [][NextTitle]_vars

\* One call of keyword_match on a text and a keyword table
Texts ==
    {<<>>, <<"a", "b">>, <<"x", "A", "B", "x">>, <<"b", " ", "a">>,
     <<"B", "c", "x">>, <<"x", "y">>}
Triggers == {<<"a", "b">>, <<"B">>, <<"b", "c">>, <<"a", " ", "b">>}
Topics == {"ai_agents", "ai_models"}
KeywordTables ==
    UNION {[T -> SeqsUpTo(Triggers, MaxTriggers)] : T \in SUBSET Topics}

KeywordMatchCall(text, keyword_table) ==
    /\ UNCHANGED others
    /\ UNCHANGED <<now, dir, file, tmpfiles, store, max_age, pc, tmp, widx, exc,
                   added, loaded, lastWriter>>
    /\ ret' = [ret EXCEPT ![1] =
                  [op |-> "keyword_match",
                   val |-> keyword_match(text, keyword_table),
                   arg |-> <<text, keyword_table>>]]

NextKeyword ==
    /\ ret[1].op = "none"
    /\ \E text \in Texts, keyword_table \in KeywordTables :
          KeywordMatchCall(text, keyword_table)

SpecKeyword == InitTitle /\ [][NextKeyword]_vars

\* One call of _crontab_entry on a path and a time string
TwoDigits(n) == <<ToString(n \div 10), ToString(n % 10)>>
ValidTimes == {TwoDigits(h) \o <<":">> \o TwoDigits(mi) : h \in 0..23, mi \in 0..59}
InvalidTimes ==
    {<<"2", "4", ":", "0", "0">>, <<"0", "6", ":", "6", "0">>,
     <<"0", "6", "0", "0">>, <<"0", "6", ":", "0", "0", ":", "0", "0">>,
     <<"0", "6", ":", "x", "0">>, <<":", "0", "0">>, <<>>}
Paths == {"/path/to/run.sh", "/home/u/run.sh"}

CrontabEntryCall(run_sh_path, time) ==
    /\ UNCHANGED others
    /\ UNCHANGED <<now, dir, file, tmpfiles, store, max_age, pc, tmp, widx, exc,
                   added, loaded, lastWriter>>
    /\ ret' = [ret EXCEPT ![1] =
                  [op |-> "_crontab_entry",
                   val |-> _crontab_entry(run_sh_path, time),
                   arg |-> <<run_sh_path, time>>]]

NextEntry ==
    /\ ret[1].op = "none"
    /\ \E run_sh_path \in Paths, time \in ValidTimes \cup InvalidTimes :
          CrontabEntryCall(run_sh_path, time)

SpecEntry == InitTitle /\ [][NextEntry]_vars

\* ------------------------------------------------------------------------
\* Scheduler: installing and removing the daily job
\* ------------------------------------------------------------------------
\* `_CRON_MARKER in l`, for a line given by its pieces
HasMarker(l) == \E k \in 1..Len(l) : l[k] = _CRON_MARKER

\* [l for l in ... if _CRON_MARKER not in l]
Unmarked(lines) == SelectSeq(lines, LAMBDA l : ~HasMarker(l))

\* subprocess.run(["crontab", "-l"]): the lines of the crontab, or a
\* non-zero return code when the user has none
crontab_l(c) ==
    IF c.exists THEN [returncode |-> 0, stdout |-> c.lines]
    ELSE [returncode |-> 1, stdout |-> <<>>]

\* a bool of the program, as the results of the calls are recorded
Bool(b) == IF b THEN "True" ELSE "False"

\* the files the scheduler works on
Machine ==
    [plist |-> plist, service |-> service, timer |-> timer, crontab |-> crontab]

\* _install_launchd; result: `launchctl load` returned 0
_install_launchd(m, run_sh_path, time, result) ==
    IF ~_validate_time(time).ok THEN [val |-> "ValueError", m |-> m]
    ELSE [val |-> Bool(result), m |-> [m EXCEPT !.plist = TRUE]]

\* _uninstall_launchd
_uninstall_launchd(m) ==
    [val |-> "True", m |-> [m EXCEPT !.plist = FALSE]]

\* _install_systemd; result: `systemctl --user enable --now` returned 0
_install_systemd(m, run_sh_path, time, result) ==
    [val |-> Bool(result), m |-> [m EXCEPT !.service = TRUE, !.timer = TRUE]]

\* _uninstall_systemd
_uninstall_systemd(m) ==
    [val |-> "True", m |-> [m EXCEPT !.service = FALSE, !.timer = FALSE]]

\* (a slip: the lines carrying the marker are not filtered out)
_install_cron_keepOld(m, run_sh_path, time, written) ==
    IF ~_validate_time(time).ok THEN [val |-> "ValueError", m |-> m]
    ELSE LET entry == _crontab_entry(run_sh_path, time)
             result == crontab_l(m.crontab)
             existing == IF result.returncode = 0 THEN result.stdout ELSE <<>>
             lines == Append(existing, entry)
         IN  IF written
             THEN [val |-> "True", m |-> [m EXCEPT !.crontab = FileOf(lines)]]
             ELSE [val |-> "False", m |-> m]

\* _install_cron; written: `crontab -` returned 0
_install_cron(m, run_sh_path, time, written) ==
    IF ~_validate_time(time).ok THEN [val |-> "ValueError", m |-> m]
    ELSE LET entry == _crontab_entry(run_sh_path, time)
             result == crontab_l(m.crontab)
             existing == IF result.returncode = 0 THEN result.stdout ELSE <<>>
             lines == Append(Unmarked(existing), entry)
         IN  IF written
             THEN [val |-> "True", m |-> [m EXCEPT !.crontab = FileOf(lines)]]
             ELSE [val |-> "False", m |-> m]

\* _uninstall_cron; written: `crontab -` returned 0
_uninstall_cron(m, written) ==
    LET result == crontab_l(m.crontab)
    IN  IF result.returncode # 0 THEN [val |-> "True", m |-> m]
        ELSE LET lines == Unmarked(result.stdout)
             IN  IF written
                 THEN [val |-> "True", m |-> [m EXCEPT !.crontab = FileOf(lines)]]
                 ELSE [val |-> "False", m |-> m]

\* install_scheduler; ok: the command the installer ends with returned 0
install_scheduler(m, time, run_sh_path, ok) ==
    IF plat = "macos" THEN _install_launchd(m, run_sh_path, time, ok)
    ELSE IF plat = "linux"
    THEN IF systemctl THEN _install_systemd(m, run_sh_path, time, ok)
         ELSE _install_cron(m, run_sh_path, time, ok)
    ELSE [val |-> "False", m |-> m]

\* uninstall_scheduler; written: the `crontab -` of _uninstall_cron returned 0
uninstall_scheduler(m, written) ==
    IF plat = "macos" THEN _uninstall_launchd(m)
    ELSE IF plat = "linux"
    THEN LET ok == _uninstall_systemd(m)
         IN  [val |-> ok.val, m |-> _uninstall_cron(ok.m, written).m]
    ELSE [val |-> "False", m |-> m]

\* get_scheduler_status
get_scheduler_status(m) ==
    [installed |->
        IF plat = "macos" THEN m.plist
        ELSE IF plat = "linux"
        THEN m.timer \/ \E k \in 1..Len(crontab_l(m.crontab).stdout) :
                            HasMarker(crontab_l(m.crontab).stdout[k])
        ELSE FALSE,
     platform |-> plat]

\* the files become those of m and the call is recorded
Leaves(m, call) ==
    /\ plist' = m.plist
    /\ service' = m.service
    /\ timer' = m.timer
    /\ crontab' = m.crontab
    /\ ret' = [ret EXCEPT ![1] = call]

InstallSchedulerCall(time, run_sh_path, ok) ==
    /\ UNCHANGED <<now, dir, file, tmpfiles, store, max_age, pc, tmp, widx, exc,
                   added, loaded, lastWriter>>
    /\ UNCHANGED <<existing_titles, plat, systemctl, tmp_dirs, dummy_seen>>
    /\ LET r == install_scheduler(Machine, time, run_sh_path, ok)
       IN  Leaves(r.m, [op |-> "install_scheduler", val |-> r.val,
                        arg |-> <<time, run_sh_path>>])

UninstallSchedulerCall(written) ==
    /\ UNCHANGED <<now, dir, file, tmpfiles, store, max_age, pc, tmp, widx, exc,
                   added, loaded, lastWriter>>
    /\ UNCHANGED <<existing_titles, plat, systemctl, tmp_dirs, dummy_seen>>
    /\ LET r == uninstall_scheduler(Machine, written)
       IN  Leaves(r.m, [op |-> "uninstall_scheduler", val |-> r.val,
                        arg |-> <<>>])

GetSchedulerStatusCall ==
    /\ UNCHANGED <<now, dir, file, tmpfiles, store, max_age, pc, tmp, widx, exc,
                   added, loaded, lastWriter>>
    /\ UNCHANGED others
    /\ ret' = [ret EXCEPT ![2] = [op |-> "get_scheduler_status",
                                  val |-> get_scheduler_status(Machine),
                                  arg |-> <<>>]]

InstallCronCall(run_sh_path, time, written) ==
    /\ UNCHANGED <<now, dir, file, tmpfiles, store, max_age, pc, tmp, widx, exc,
                   added, loaded, lastWriter>>
    /\ UNCHANGED <<existing_titles, plat, systemctl, tmp_dirs, dummy_seen>>
    /\ LET r == _install_cron(Machine, run_sh_path, time, written)
       IN  Leaves(r.m, [op |-> "_install_cron", val |-> r.val,
                        arg |-> <<run_sh_path, time>>])

UninstallCronCall(written) ==
    /\ UNCHANGED <<now, dir, file, tmpfiles, store, max_age, pc, tmp, widx, exc,
                   added, loaded, lastWriter>>
    /\ UNCHANGED <<existing_titles, plat, systemctl, tmp_dirs, dummy_seen>>
    /\ LET r == _uninstall_cron(Machine, written)
       IN  Leaves(r.m, [op |-> "_uninstall_cron", val |-> r.val, arg |-> <<>>])

\* the times and the crontabs the scheduler is tried on
SchedTimes ==
    {<<"0", "6", ":", "0", "0">>, <<"1", "4", ":", "3", "0">>,
     <<"0", "0", ":", "0", "0">>, <<"2", "4", ":", "0", "0">>}
UserLines ==
    [k \in 1..MaxUserLines |-> <<ToString(k) \o " 1 * * * /usr/bin/backup">>]
OldEntry == _crontab_entry("/old/run.sh", <<"0", "5", ":", "1", "5">>)
Crontabs ==
    {Absent, FileOf(<<>>)}
    \cup {FileOf(SubSeq(UserLines, 1, k)) : k \in 1..MaxUserLines}
    \cup {FileOf(<<UserLines[1], OldEntry>> \o SubSeq(UserLines, 2, k)) :
              k \in 1..MaxUserLines}
Platforms == {"macos", "linux", "unsupported"}

InitSched ==
    /\ existing_titles = <<>>
    /\ plat \in Platforms
    /\ systemctl \in BOOLEAN
    /\ plist = FALSE
    /\ service = FALSE
    /\ timer = FALSE
    /\ crontab \in Crontabs
    /\ tmp_dirs = <<>>
    /\ dummy_seen = <<>>
    /\ now = 0
    /\ file = Absent
    /\ dir = TRUE
    /\ tmpfiles = [n \in TmpNames |-> Absent]
    /\ store = [i \in Insts |-> <<>>]
    /\ max_age = [i \in Insts |-> 1]
    /\ pc = [i \in Insts |-> "none"]
    /\ tmp = [i \in Insts |-> 0]
    /\ widx = [i \in Insts |-> 0]
    /\ exc = [i \in Insts |-> "none"]
    /\ ret = [i \in Insts |-> [op |-> "none", val |-> "none", arg |-> <<>>]]
    /\ added = [i \in Insts |-> {}]
    /\ loaded = [i \in Insts |-> {}]
    /\ lastWriter = 0

NextSched ==
    \/ \E time \in SchedTimes, run_sh_path \in Paths, ok \in BOOLEAN :
          InstallSchedulerCall(time, run_sh_path, ok)
    \/ \E written \in BOOLEAN : UninstallSchedulerCall(written)
    \/ GetSchedulerStatusCall

SpecSched == InitSched /\ [][NextSched]_vars

\* the cron fallback by itself
InitCron == InitSched /\ plat = "linux" /\ ~systemctl
NextCron ==
    \/ \E time \in SchedTimes, run_sh_path \in Paths, written \in BOOLEAN :
          InstallCronCall(run_sh_path, time, written)
    \/ \E written \in BOOLEAN : UninstallCronCall(written)

SpecCron == InitCron /\ [][NextCron]_vars

\* the default of max_age_days
DefaultMaxAgeDays == 90

\* (a slip: the demo run uses a store on the user's state file and saves it)
run_demo_persisting(items) ==
    /\ Len(tmp_dirs) < MaxDemo
    /\ UNCHANGED <<now, dir, tmpfiles, store, max_age, pc, tmp, widx, exc,
                   added, loaded, lastWriter>>
    /\ UNCHANGED <<existing_titles, plat, systemctl, plist, service, timer,
                   crontab>>
    /\ tmp_dirs' = Append(tmp_dirs, Absent)
    /\ LET r == dedup_items(items, _load(file, now, DefaultMaxAgeDays), now)
       IN  /\ dummy_seen' = r.store
           /\ file' = FileOf(Serialize(r.store))
           /\ ret' = [ret EXCEPT ![2] =
                         [op |-> "run_demo", val |-> r.accepted, arg |-> items]]

\* run_demo, steps 4 and 5: a store on seen_urls.txt in a directory that
\* mkdtemp has just created, dedup_items on it, and no save()
run_demo(items) ==
    /\ Len(tmp_dirs) < MaxDemo
    /\ UNCHANGED <<now, dir, file, tmpfiles, store, max_age, pc, tmp, widx, exc,
                   added, loaded, lastWriter>>
    /\ UNCHANGED <<existing_titles, plat, systemctl, plist, service, timer,
                   crontab>>
    /\ tmp_dirs' = Append(tmp_dirs, Absent)
    /\ LET r == dedup_items(items, _load(Absent, now, DefaultMaxAgeDays), now)
       IN  /\ dummy_seen' = r.store
           /\ ret' = [ret EXCEPT ![2] =
                         [op |-> "run_demo", val |-> r.accepted, arg |-> items]]

\* A user whose pipeline records and saves URLs, and demo runs in between
DemoBatches ==
    {items \in SeqsUpTo({[url |-> u, title |-> <<"x", "y">>] : u \in Urls},
                         MaxBatch) :
        \A j, k \in 1..Len(items) : items[j].url = items[k].url => j = k}
NextDemo ==
    \/ Construct(1, MaxAgeDays)
    \/ \E url \in Urls : AddCall(1, url)
    \/ save(1)
    \/ \E items \in DemoBatches : run_demo(items)

SpecDemo == InitSave /\ [][NextDemo]_vars

\* The life of the entries of one store over the runs of one process: time
\* passes, the store is used and saved, and a later run constructs it anew.
\* The batches are of one item, one for each URL.
LifeBatches == {<<[url |-> u, title |-> <<"x", "y">>]>> : u \in Urls}
NextLife ==
    \/ Tick
    \/ \E m \in MaxAges : Construct(1, m)
    \/ \E url \in Urls : AddCall(1, url)
    \/ \E items \in LifeBatches : DedupCall(1, items)
    \/ save(1)

SpecLife == InitSave /\ [][NextLife]_vars

\* ------------------------------------------------------------------------
\* Properties
\* ------------------------------------------------------------------------
Live(i) == pc[i] # "none"

\* C1, as stated: on every instance is_seen(u) is false before any add(u)
\* on it and true from the first add(u) on.
C1_SeenOnlyAfterAdd ==
    \A i \in Insts, u \in Urls :
        Live(i) => (is_seen(store[i], u) <=> u \in added[i])

\* C1, amended: on every instance is_seen(u) is true exactly when the digest
\* of u was loaded at construction or add(u) was called on the instance
\* since; so it is false before any add(u) unless it was loaded, true after
\* add(u) for good, and add(u) makes no other URL seen.
C1_SeenIffLoadedOrAdded ==
    \A i \in Insts, u \in Urls :
        Live(i) => (is_seen(store[i], u) <=> (u \in added[i] \/ _sha256(u) \in loaded[i]))

\* an instance built on a file without entries, one URL added and seen,
\* another still unseen, and calls made after the add
C1_Witness ==
    \E u, v \in Urls :
        /\ Live(1) /\ loaded[1] = {}
        /\ added[1] = {u} /\ is_seen(store[1], u)
        /\ v # u /\ ~is_seen(store[1], v)
        /\ ret[1].op = "save" /\ ret[1].val = "ok"

\* the day the entry of u in the map d was recorded
SeenAt(d, u) == _parse_ts(Get(d, _sha256(u))).t
SavedOk(i) == ret[i].op = "save" /\ ret[i].val = "ok"

\* C2, as stated: after add(u) and save() on an instance, a new instance on
\* the same path with the same max_age_days reports u as seen.
C2_RoundTrip ==
    [][\A m \in MaxAges, u \in Urls :
          (SavedOk(1) /\ u \in added[1] /\ m = max_age[1] /\ Construct(1, m))
              => is_seen(store'[1], u)]_vars

\* C2, amended: after add(u) and save() on an instance, a new instance on
\* the same path with the same max_age_days, constructed no later than
\* max_age_days after the add, reports u as seen.
C2_RoundTripInWindow ==
    [][\A m \in MaxAges, u \in Urls :
          (/\ SavedOk(1) /\ u \in added[1] /\ m = max_age[1]
           /\ now - SeenAt(store[1], u) <= m
           /\ Construct(1, m))
              => is_seen(store'[1], u)]_vars

\* a store constructed on day 2 that holds an entry recorded on day 1: the
\* entry was added, saved and loaded again
C2_Witness ==
    \E u \in Urls :
        /\ ret[1].op = "init" /\ lastWriter = 1 /\ now = 2
        /\ is_seen(store[1], u)
        /\ Get(store[1], _sha256(u)) = <<IsoFormat(1)>>

\* the entries save() writes: a digest, a space, an isoformat timestamp
WellFormed(l) ==
    /\ Len(l) = 3
    /\ l[1] \notin WS /\ l[2] = " "
    /\ \E t \in Times : l[3] = IsoFormats[t]
DayOf(l) == CHOOSE t \in Times : l[3] = IsoFormats[t]

\* C3: a well-formed persisted entry is in a newly constructed instance
\* exactly when its timestamp is not before now minus max_age_days, with
\* its timestamp as persisted; and no call on an instance removes a key
\* from it, so entries are pruned at construction only.
C3_PrunedAtLoadOnly ==
    [][/\ \A m \in MaxAges :
            Construct(1, m) =>
                \A k \in 1..Len(file.lines) :
                    LET l == file.lines[k]
                    IN  WellFormed(l) =>
                            /\ HasKey(store'[1], <<l[1]>>) <=> DayOf(l) >= now - m
                            /\ HasKey(store'[1], <<l[1]>>)
                                   => Get(store'[1], <<l[1]>>) = <<l[3]>>
       /\ \A i \in Insts :
            Live(i) => \/ store'[i] = store[i]
                       \/ Keys(store[i]) \subseteq Keys(store'[i])
                       \/ \E m \in MaxAges : Construct(i, m)]_vars

\* a store just constructed that kept an entry exactly at the cutoff and
\* dropped an older entry of the file
C3_Witness ==
    /\ ret[1].op = "init"
    /\ \E k, j \in 1..Len(file.lines) :
          /\ WellFormed(file.lines[k]) /\ WellFormed(file.lines[j])
          /\ DayOf(file.lines[k]) = now - max_age[1]
          /\ HasKey(store[1], <<file.lines[k][1]>>)
          /\ DayOf(file.lines[j]) < now - max_age[1]
          /\ ~HasKey(store[1], <<file.lines[j][1]>>)

\* a step of save() on instance i
SaveStep(i) ==
    \E ok \in BOOLEAN :
        \/ SaveMkdir(i, ok) \/ SaveMkstemp(i, ok) \/ SaveWrite(i, ok)
        \/ SaveReplace(i, ok) \/ SaveExcept(i, ok)
\* save() on instance i ends by raising
Raises(i) == SaveStep(i) /\ pc'[i] = "idle" /\ ret'[i].val # "ok"
\* the temporary file of the save() on instance i is still there
TmpLeft(i) == tmp[i] # 0 /\ tmpfiles'[tmp[i]].exists

\* C4, as stated: when save() raises, its temporary file is gone, the
\* backing file is as it was, and the map is unchanged.
C4_FailureLeavesNoTmp ==
    [][\A i \in Insts :
          Raises(i) => /\ ~TmpLeft(i)
                       /\ file' = file
                       /\ store'[i] = store[i]]_vars

\* C4, amended: a failed step of save() changes neither the backing file
\* nor the map and leads to the error being raised again; when save()
\* raises, its temporary file is gone unless removing it failed as well.
C4_FailureCleansUpBestEffort ==
    [][\A i \in Insts :
          /\ Raises(i) => /\ TmpLeft(i) => SaveExcept(i, FALSE)
                          /\ file' = file
                          /\ store'[i] = store[i]
          /\ (SaveStep(i) /\ pc'[i] = "except")
                 => /\ exc'[i] # "none"
                    /\ file' = file /\ store'[i] = store[i]
          /\ (SaveStep(i) /\ pc[i] = "except")
                 => /\ Raises(i)
                    /\ ret'[i].op = "save" /\ ret'[i].val = exc[i]
          /\ (SaveMkdir(i, FALSE) \/ SaveMkstemp(i, FALSE))
                 => /\ Raises(i)
                    /\ tmpfiles' = tmpfiles]_vars

\* save() has raised the error of a failed write or rename after removing
\* its temporary file, and the backing file holds less than the map
C4_Witness ==
    /\ ret[1].op = "save" /\ ret[1].val = "OSError"
    /\ dir
    /\ \A n \in TmpNames : ~tmpfiles[n].exists
    /\ Len(store[1]) >= 1
    /\ file # FileOf(Serialize(store[1]))

\* C5: every change of the backing file puts in its place, in one step, the
\* complete serialization of the map of an instance that is in save(); no
\* other step of save() and no death of the process changes it, so a reader
\* finds the old content or the new, never a part of either.
C5_AtomicReplace ==
    [][file' # file =>
          \E i \in Insts :
              /\ SaveReplace(i, TRUE)
              /\ file' = FileOf(Serialize(store[i]))]_vars

\* a reader constructed its store while the writer had written one of two
\* entries to its temporary file
C5_Witness ==
    /\ pc[1] = "write" /\ widx[1] = 1 /\ Len(store[1]) = 2
    /\ ret[2].op = "init"
    /\ file # FileOf(Serialize(store[1]))
    /\ tmpfiles[tmp[1]].lines # Serialize(store[1])

\* C6: when two instances on the same path save with their steps
\* interleaved, no save() raises, and once a save() has returned whose
\* rename was the last one, the backing file is the complete serialization
\* of the map of that instance, whatever the other instance wrote.
C6_LastWriteWins ==
    /\ \A i \in Insts : ret[i].op = "save" => ret[i].val = "ok"
    /\ \A i \in Insts : pc[i] # "except"
    /\ \A i \in Insts :
          (lastWriter = i /\ SavedOk(i)) => file = FileOf(Serialize(store[i]))

\* instance 1 began its save() while instance 2 was in save() (it got the
\* second temporary name) and has written its whole map; instance 2 has
\* renamed meanwhile, and the backing file is the map of instance 2
C6_Witness ==
    /\ pc[1] = "write" /\ tmp[1] # mkstemp_fixed
    /\ widx[1] = Len(store[1]) /\ Len(store[1]) >= 1
    /\ SavedOk(2) /\ lastWriter = 2
    /\ Keys(store[1]) # Keys(store[2])
    /\ file = FileOf(Serialize(store[2]))
    /\ tmpfiles[tmp[1]].lines = Serialize(store[1])

\* the items of a batch picked by f, in the order of the batch, from the
\* k-th on
RECURSIVE Pick(_, _, _)
Pick(items, f, k) ==
    IF k > Len(items) THEN <<>>
    ELSE (IF f[k] THEN <<items[k]>> ELSE <<>>) \o Pick(items, f, k + 1)

\* C7: dedup_items returns the items of the batch, in the order of the
\* batch, that were accepted, where an item is accepted exactly when its URL
\* is not seen when it is visited (neither in the store before the call nor
\* accepted earlier in the call) and its title is no duplicate of the title
\* of an item accepted earlier in the call.
C7_AcceptsExactlyNovel ==
    [][ret'[1].op = "dedup" =>
        LET items == ret'[1].arg IN
          DedupCall(1, items) =>
            \E f \in [1..Len(items) -> BOOLEAN] :
              /\ \A k \in 1..Len(items) :
                    f[k] <=>
                      /\ ~is_seen(store[1], items[k].url)
                      /\ ~\E j \in 1..(k - 1) : f[j] /\ items[j].url = items[k].url
                      /\ ~\E j \in 1..(k - 1) :
                             /\ f[j]
                             /\ is_title_duplicate(items[k].title,
                                                   <<items[j].title>>, DefaultThreshold)
              /\ ret'[1].val = Pick(items, f, 1)]_vars

\* dedup_items has returned one item of a batch of two; the other has a
\* different URL, unseen still, and was rejected for its title
C7_Witness ==
    /\ ret[1].op = "dedup" /\ Len(ret[1].val) = 1
    /\ added[1] = {ret[1].val[1].url}
    /\ \E u \in Urls : ~is_seen(store[1], u)
    /\ loaded[1] = {}

C9_NoWriteBeforeSave ==
    [][(/\ ret'[1].op \in {"add", "dedup"}
        /\ \/ \E u \in Urls : AddCall(1, u)
           \/ DedupCall(1, ret'[1].arg))
            => /\ file' = file /\ dir' = dir /\ tmpfiles' = tmpfiles
               /\ \A m \in MaxAges :
                     LET before == _load(file, now, m)
                         after == _load(file', now', m)
                     IN  \A u \in Urls : is_seen(after, u) = is_seen(before, u)]_vars

\* URLs recorded by add and by dedup_items that a store constructed from
\* the backing file would not report
C9_Witness ==
    /\ ret[1].op = "dedup" /\ Len(ret[1].val) = 1
    /\ Cardinality(added[1]) = 2
    /\ file.exists
    /\ \A u \in added[1] : ~is_seen(_load(file, now, max_age[1]), u)

\* the white-space-separated fields of a line
RECURSIVE Fields(_)
Fields(s) ==
    LET t == LStrip(s)
    IN  IF t = <<>> THEN <<>>
        ELSE LET n == CHOOSE n \in 1..Len(t) :
                          /\ \A j \in 1..n : t[j] \notin WS
                          /\ n = Len(t) \/ t[n + 1] \in WS
             IN  <<SubSeq(t, 1, n)>> \o Fields(SubSeq(t, n + 1, Len(t)))

\* C10, as stated: the keys loaded are the first fields of the lines that
\* have exactly two white-space-separated fields, the second one a
\* timestamp that parses and is within the retention window.
C10_LoadsTwoFieldLines ==
    [][\A m \in MaxAges :
          Construct(1, m) =>
              Keys(store'[1]) =
                  {Fields(file.lines[k])[1] :
                      k \in {j \in 1..Len(file.lines) :
                                LET fs == Fields(file.lines[j])
                                IN  /\ Len(fs) = 2
                                    /\ _parse_ts(fs[2]).ok
                                    /\ _parse_ts(fs[2]).t >= now - m}}]_vars

\* the line l, without the white space around it, has its first space at
\* position p, and what follows that space is a timestamp that parses and
\* is not before the cutoff; a and b are the ends of the line without the
\* white space around it
CutsAt(l, a, p, b, cutoff) ==
    /\ a < p /\ p <= b
    /\ \A j \in 1..(a - 1) : l[j] \in WS
    /\ \A j \in (b + 1)..Len(l) : l[j] \in WS
    /\ l[a] \notin WS /\ l[b] \notin WS
    /\ l[p] = " " /\ \A j \in a..(p - 1) : l[j] # " "
    /\ FromIsoFormat(SubSeq(l, p + 1, b)).ok
    /\ FromIsoFormat(SubSeq(l, p + 1, b)).t >= cutoff

\* C10, amended: construction on a file of any lines returns, and the keys
\* loaded are, for every line that, without the white space around it,
\* holds a space character and after its first space a timestamp that
\* parses and is within the retention window, the text before that first
\* space; the other lines are skipped, whatever comes before or after them.
C10_LoadsSpaceSplitLines ==
    [][\A m \in MaxAges :
          Construct(1, m) =>
              /\ ret'[1].op = "init" /\ pc'[1] = "idle"
              /\ Keys(store'[1]) =
                    {SubSeq(file.lines[x[1]], x[2], x[3] - 1) :
                        x \in {y \in (1..Len(file.lines)) \X (1..MaxLineLen)
                                         \X (1..MaxLineLen) \X (1..MaxLineLen) :
                                  /\ y[4] <= Len(file.lines[y[1]])
                                  /\ CutsAt(file.lines[y[1]], y[2], y[3], y[4],
                                            now - m)}}]_vars

\* a store constructed on a file of two lines: the first line is skipped
\* and the second is loaded
C10_Witness ==
    /\ ret[1].op = "init"
    /\ Len(file.lines) = 2
    /\ Len(file.lines[1]) = MaxShortLen
    /\ _load(FileOf(<<file.lines[1]>>), now, max_age[1]) = <<>>
    /\ Len(store[1]) = 1

\* the day the entry of the digest h in the map d was recorded
DayAt(d, h) == _parse_ts(Get(d, h)).t
\* the file f holds a well-formed entry of the digest h not older than cutoff
FileHolds(f, h, cutoff) ==
    /\ f.exists
    /\ \E k \in 1..Len(f.lines) :
          /\ WellFormed(f.lines[k])
          /\ <<f.lines[k][1]>> = h
          /\ DayOf(f.lines[k]) >= cutoff
\* the step makes the digest h present by an add, its own or dedup_items'
AddedBy(h) ==
    \E u \in Urls :
        /\ h = _sha256(u)
        /\ \/ AddCall(1, u)
           \/ /\ ret'[1].op = "dedup"
              /\ DedupCall(1, ret'[1].arg)
              /\ \E k \in 1..Len(ret'[1].val) : ret'[1].val[k].url = u
\* an entry saved and loaded again within its window is still present
KeptOverReload(h) ==
    \A m \in MaxAges :
        (/\ SavedOk(1) /\ HasKey(store[1], h)
         /\ now - DayAt(store[1], h) <= m
         /\ Construct(1, m))
            => HasKey(store'[1], h)

\* C11, as stated: an entry becomes present only through add or by being
\* loaded unexpired at construction; it becomes absent only at the
\* construction of a later instance and only when its window has elapsed;
\* and saved and loaded again within its window it is still present.
C11_OnlyTtlRemoves ==
    [][\A h \in Keys(store[1]) \cup Keys(store'[1]) :
          /\ (~HasKey(store[1], h) /\ HasKey(store'[1], h))
                => \/ AddedBy(h)
                   \/ \E m \in MaxAges :
                         Construct(1, m) /\ FileHolds(file, h, now - m)
          /\ (Live(1) /\ HasKey(store[1], h) /\ ~HasKey(store'[1], h))
                => \E m \in MaxAges :
                      Construct(1, m) /\ now - DayAt(store[1], h) > m
          /\ KeptOverReload(h)]_vars

\* C11, amended: an entry becomes absent only at the construction of a later
\* instance, and only when the backing file holds no unexpired entry of it:
\* its saved timestamp is older than the window, or it was never saved.
C11_OnlyReloadRemoves ==
    [][\A h \in Keys(store[1]) \cup Keys(store'[1]) :
          /\ (~HasKey(store[1], h) /\ HasKey(store'[1], h))
                => \/ AddedBy(h)
                   \/ \E m \in MaxAges :
                         Construct(1, m) /\ FileHolds(file, h, now - m)
          /\ (Live(1) /\ HasKey(store[1], h) /\ ~HasKey(store'[1], h))
                => \E m \in MaxAges :
                      Construct(1, m) /\ ~FileHolds(file, h, now - m)
          /\ KeptOverReload(h)]_vars

\* a store just constructed from a file this process saved: an entry at the
\* very end of its window was kept, and an older entry of the file was not
C11_Witness ==
    /\ ret[1].op = "init" /\ lastWriter = 1
    /\ \E u \in Urls :
          /\ HasKey(store[1], _sha256(u))
          /\ DayAt(store[1], _sha256(u)) = now - max_age[1]
    /\ Len(store[1]) < Len(file.lines)

\* two characters that are the same letter, whatever their case
SameLetter(c, d) ==
    \/ c = d
    \/ {c, d} \in {{"a", "A"}, {"b", "B"}, {"c", "C"}, {"d", "D"}}
\* two titles that differ in letter case at most
CaseOnly(a, b) ==
    Len(a) = Len(b) /\ \A k \in 1..Len(a) : SameLetter(a[k], b[k])
\* the similarity ratio of two titles, lower-cased, as a fraction <<p, q>>
Similarity(a, b) ==
    IF Len(a) + Len(b) = 0 THEN <<1, 1>>
    ELSE <<2 * Matches(Lower(a), Lower(b)), Len(a) + Len(b)>>
\* a fraction compared with a threshold in hundredths
Above(r, threshold) == 100 * r[1] > threshold * r[2]
Equal(r, threshold) == 100 * r[1] = threshold * r[2]

\* C12: is_title_duplicate is true exactly when the ratio of the title with
\* some existing title, both lower-cased, is strictly above the threshold;
\* a ratio equal to the threshold makes no duplicate, an empty list gives
\* false, titles differing in case only are duplicates for every threshold
\* below 1, and the list is left as it was.
C12_StrictlyAboveThreshold ==
    [][ret'[1].op = "is_title_duplicate" =>
        LET title == ret'[1].arg[1]
            threshold == ret'[1].arg[2]
        IN  IsTitleDuplicateCall(title, threshold) =>
            LET e == existing_titles
                r == ret'[1].val
                ratio == [k \in 1..Len(e) |-> Similarity(title, e[k])]
            IN  /\ r <=> \E k \in 1..Len(e) : Above(ratio[k], threshold)
                /\ (\A k \in 1..Len(e) :
                        ~Above(ratio[k], threshold)
                        \/ Equal(ratio[k], threshold)) => ~r
                /\ e = <<>> => ~r
                /\ (threshold < 100 /\ \E k \in 1..Len(e) : CaseOnly(title, e[k]))
                       => r
                /\ existing_titles' = e]_vars

\* a call on a list of two titles that found no duplicate although the ratio
\* with one of them is exactly the threshold, and case made the difference
\* for the other
C12_Witness ==
    /\ ret[1].op = "is_title_duplicate" /\ ret[1].val = FALSE
    /\ Len(existing_titles) = 2
    /\ Equal(Similarity(ret[1].arg[1], existing_titles[1]), ret[1].arg[2])
    /\ existing_titles[2] # Lower(existing_titles[2])
    /\ ret[1].arg[2] > 0

\* the phrase occurs in the text, letter by letter, whatever the case
Occurs(phrase, text) ==
    \E i \in 1..(Len(text) + 1) :
        /\ i + Len(phrase) - 1 <= Len(text)
        /\ \A j \in 1..Len(phrase) : SameLetter(text[i + j - 1], phrase[j])

TwoDigitValue(s) == 10 * DigitVal(s[1]) + DigitVal(s[2])

\* C14: for every valid time "HH:MM" and every path, _crontab_entry returns
\* "<minute> <hour> * * * <path>  # claude-news", minute and hour as
\* unpadded decimal integers.
C14_EntryCarriesClaudeNews ==
    (ret[1].op = "_crontab_entry" /\ ret[1].arg[2] \in ValidTimes) =>
        ret[1].val = <<ToString(TwoDigitValue(SubSeq(ret[1].arg[2], 4, 5))), " ",
                       ToString(TwoDigitValue(SubSeq(ret[1].arg[2], 1, 2))),
                       " * * * ", ret[1].arg[1], "  ", "# claude-news">>

\* the URLs a store constructed from the file f at time t would report seen
PersistedSeen(f, t, m) ==
    LET d == _load(f, t, m) IN {u \in Urls : is_seen(d, u)}

\* C15: a demo run leaves the user's state file, its directory and every
\* store of the user as they are, so the URLs persisted as seen are the same
\* before and after; it works on a store that starts empty whatever the
\* user's file holds, in a directory newly created, and saves nothing there.
C15_DemoPersistsNothing ==
    [][ret'[2].op = "run_demo" =>
        LET items == ret'[2].arg IN
          run_demo(items) =>
            /\ file' = file /\ dir' = dir /\ tmpfiles' = tmpfiles
            /\ store' = store
            /\ ret'[2].val = dedup_items(items, <<>>, now).accepted
            /\ \A m \in {MaxAgeDays, DefaultMaxAgeDays} :
                  PersistedSeen(file', now', m) = PersistedSeen(file, now, m)
            /\ Keys(dummy_seen') =
                  {_sha256(ret'[2].val[k].url) : k \in 1..Len(ret'[2].val)}
            /\ Len(tmp_dirs') = Len(tmp_dirs) + 1
            /\ \A k \in 1..Len(tmp_dirs') : ~tmp_dirs'[k].exists]_vars

\* the second demo run accepted a URL that the user's file holds and the
\* first demo run had accepted too
C15_Witness ==
    /\ ret[2].op = "run_demo" /\ Len(tmp_dirs) = 2
    /\ file.exists
    /\ \E u \in Urls :
          /\ u \in PersistedSeen(file, now, max_age[1])
          /\ is_seen(store[1], u)
          /\ HasKey(dummy_seen, _sha256(u))
    /\ Len(ret[2].val) = 1 /\ Len(ret[2].arg) = 2


\* no herald job: no plist, no systemd unit file, no crontab line carrying
\* the marker
NoJob(m) ==
    /\ ~m.plist /\ ~m.service /\ ~m.timer
    /\ \A k \in 1..Len(m.crontab.lines) : ~HasMarker(m.crontab.lines[k])

\* C16: on macOS and Linux, whenever uninstall_scheduler returns True, no
\* plist, no systemd timer file and no crontab line carrying the marker
\* remains and get_scheduler_status reports installed = false; on an
\* unsupported platform it returns False and changes nothing.
C16_TrueOnlyOnSuccess ==
    [][\A written \in BOOLEAN :
          UninstallSchedulerCall(written) =>
             IF plat \in {"macos", "linux"}
             THEN ret'[1].val = "True" =>
                     /\ ~plist' /\ ~timer'
                     /\ \A k \in 1..Len(crontab'.lines) :
                           ~HasMarker(crontab'.lines[k])
                     /\ ~get_scheduler_status(Machine').installed
             ELSE ret'[1].val = "False" /\ Machine' = Machine]_vars


\* the URLs a store reports seen, and the URLs of a list of items
SeenSet(d) == {u \in Urls : is_seen(d, u)}
UrlsOf(items) == {items[k].url : k \in 1..Len(items)}

\* item k of the batch is rejected only for its title: dedup_items, having
\* gone through the items before it, does not find its URL in the store and
\* finds its title a duplicate of an accepted one
RejectedForTitle(items, d, t, k) ==
    LET before == dedup_items(SubSeq(items, 1, k - 1), d, t)
    IN  /\ ~is_seen(before.store, items[k].url)
        /\ is_title_duplicate(items[k].title,
                              [j \in 1..Len(before.accepted) |->
                                  before.accepted[j].title],
                              DefaultThreshold)

\* the seen URLs after dedup_items are those before and those of the result,
\* which are pairwise distinct and were not seen before
StoreEffect(items, r, d, dAfter) ==
    /\ SeenSet(dAfter) = SeenSet(d) \cup UrlsOf(r)
    /\ \A j, k \in 1..Len(r) : r[j].url = r[k].url => j = k
    /\ UrlsOf(r) \cap SeenSet(d) = {}

\* C17 as stated: after dedup_items(items, seen) returns r, the URLs seen are
\* those seen before and those of r; the URLs of r are pairwise distinct and
\* none was seen before; an item rejected only for its title leaves its URL
\* unseen.
C17_TitleRejectLeavesUnseen ==
    [][ret'[1].op = "dedup" =>
        LET items == ret'[1].arg
            r == ret'[1].val
        IN  DedupCall(1, items) =>
              /\ StoreEffect(items, r, store[1], store'[1])
              /\ \A k \in 1..Len(items) :
                    RejectedForTitle(items, store[1], now, k) =>
                       ~is_seen(store'[1], items[k].url)]_vars

\* C17: after dedup_items(items, seen) returns r, the URLs seen are those
\* seen before and those of r; the URLs of r are pairwise distinct and none
\* was seen before; an item rejected only for its title leaves its URL
\* unseen unless an item of the batch with that URL is accepted.
C17_TitleRejectAddsNothing ==
    [][ret'[1].op = "dedup" =>
        LET items == ret'[1].arg
            r == ret'[1].val
        IN  DedupCall(1, items) =>
              /\ StoreEffect(items, r, store[1], store'[1])
              /\ \A k \in 1..Len(items) :
                    RejectedForTitle(items, store[1], now, k) =>
                       \/ ~is_seen(store'[1], items[k].url)
                       \/ items[k].url \in UrlsOf(r)]_vars

\* a batch of three: one item accepted, one rejected because it has the URL
\* of the accepted one, one rejected only for its title whose URL stays unseen
C17_Witness ==
    /\ ret[1].op = "dedup"
    /\ Len(ret[1].arg) = 3 /\ Len(ret[1].val) = 1
    /\ \E k \in 1..3 : ~is_seen(store[1], ret[1].arg[k].url)
    /\ \E k \in 1..3 : /\ ret[1].arg[k].url = ret[1].val[1].url
                          /\ ret[1].arg[k].title # ret[1].val[1].title


\* every entry of the store of the instance keeps its timestamp over the step
TimestampsKept ==
    \/ store'[1] = store[1]
    \/ \A h \in Keys(store[1]) :
          HasKey(store'[1], h) /\ Get(store'[1], h) = Get(store[1], h)

\* C18: dedup_items and save() (every step but add and construction) leave
\* each entry of the store its timestamp; construction gives an entry the
\* timestamp written in the file; save() followed by a load gives back every
\* unexpired entry with the identical timestamp; add(url) alone replaces
\* the timestamp of a URL already present, by the time of the call.
C18_TimestampsNotRefreshed ==
    [][/\ \/ TimestampsKept
          \/ ~Live(1)
          \/ \E u \in Urls : AddCall(1, u)
          \/ \E m \in MaxAges : Construct(1, m)
       /\ TimestampsKept \/ ~(ret'[1].op = "dedup" /\ DedupCall(1, ret'[1].arg))
       /\ TimestampsKept \/ ~save(1)
       /\ \A m \in MaxAges :
             (ret'[1].op = "init" /\ Construct(1, m)) =>
                /\ \A h \in Keys(store'[1]) :
                      \E k \in 1..Len(file.lines) :
                          file.lines[k] =
                              EntryLine([h |-> h, ts |-> Get(store'[1], h)])
                /\ SavedOk(1) =>
                      \A h \in Keys(store[1]) :
                          now - DayAt(store[1], h) <= m =>
                             /\ HasKey(store'[1], h)
                             /\ Get(store'[1], h) = Get(store[1], h)
       /\ \A u \in Urls :
             (ret'[1].op = "add" /\ AddCall(1, u)) =>
                /\ Get(store'[1], _sha256(u)) = <<IsoFormat(now)>>
                /\ \A h \in Keys(store[1]) \ {_sha256(u)} :
                      Get(store'[1], h) = Get(store[1], h)]_vars

\* dedup_items has met again, and rejected, a URL that was loaded from the
\* file and recorded on an earlier day
C18_Witness ==
    /\ ret[1].op = "dedup" /\ ret[1].val = <<>> /\ Len(ret[1].arg) = 1
    /\ _sha256(ret[1].arg[1].url) \in loaded[1]
    /\ lastWriter = 1
    /\ DayAt(store[1], _sha256(ret[1].arg[1].url)) < now


\* C19: starting from a machine with no herald job, if install_scheduler
\* returns False or raises, then no plist, no systemd unit file and no
\* crontab line carrying the marker is left and get_scheduler_status reports
\* installed = false; when it returns True, get_scheduler_status reports
\* installed = true.
C19_FailedInstallLeavesNothing ==
    [][ret'[1].op = "install_scheduler" =>
        \A ok \in BOOLEAN :
           (/\ NoJob(Machine)
            /\ InstallSchedulerCall(ret'[1].arg[1], ret'[1].arg[2], ok)) =>
              /\ ret'[1].val \in {"False", "ValueError"} =>
                    /\ NoJob(Machine')
                    /\ ~get_scheduler_status(Machine').installed
              /\ ret'[1].val = "True" =>
                    get_scheduler_status(Machine').installed]_vars

====
